---- MODULE Spec2Model ----
(***************************************************************************)
(* Task lifecycle of types/src/task_state.rs: the persisted TaskState, the  *)
(* typed views Task<Create|Assign|Approve|Stage|Run|Finish|Done>, the      *)
(* operations of each view, the forward conversions between views, the     *)
(* restore conversions TaskState -> view and the persist conversions       *)
(* view -> TaskState.                                                      *)
(*                                                                         *)
(* One task record lives in `store`.  Each caller runs cycles              *)
(*   load -> restore -> view operations -> persist                         *)
(* and the write of a cycle is a compare-and-swap against the record the   *)
(* cycle loaded.                                                           *)
(***************************************************************************)
EXTENDS Integers, FiniteSets, Sequences, TLC

\* ------------------------------------------------------------------------
\* Domains the inputs are drawn from
\* ------------------------------------------------------------------------
MaxUsers == 2

UserNames == <<"alice", "bob", "carol", "dave">>

Users == {UserNames[i] : i \in 1..MaxUsers}
Callers == {"c1", "c2"}
ArgNames == {"x"}
InNames == {"in"}
OutNames == {"out"}
AuthTags == {"tag"}

\* TaskStatus (crate::TaskStatus), TaskResult (crate::TaskResult)
TaskStatus == {"Created", "DataAssigned", "Approved", "Staged", "Running", "Finished", "Failed"}
TaskResult == {"Unset", "Ok", "Err"}

\* the state tags
StateTag == {"Create", "Assign", "Approve", "Stage", "Run", "Finish", "Done"}

\* impl From<tag> for TaskStatus
StatusOfTag(tag) ==
    CASE tag = "Create" -> "Created"
      [] tag = "Assign" -> "Created"
      [] tag = "Approve" -> "DataAssigned"
      [] tag = "Stage" -> "Approved"
      [] tag = "Run" -> "Staged"
      [] tag = "Finish" -> "Running"
      [] tag = "Done" -> "Finished"

\* ------------------------------------------------------------------------
\* Maps keyed by parameter name (TaskFileOwners, TaskFiles, FunctionArguments)
\* ------------------------------------------------------------------------
EmptyMap == [n \in {} |-> {}]

MapPut(m, k, v) == [n \in (DOMAIN m) \cup {k} |-> IF n = k THEN v ELSE m[n]]

\* every map from a subset of `names` to `vals`
MapsOver(names, vals) == UNION {[d -> vals] : d \in SUBSET names}

\* file records: the owner list and the authentication tag
FileOf(owner) == [owner |-> owner, cmac |-> "none"]

\* UserList::unions
unions(lists) == UNION lists

\* TaskFileOwners::all_owners
all_owners(owners) == UNION {owners[n] : n \in DOMAIN owners}

\* results of fallible calls
Ok(v) == [ok |-> TRUE, err |-> "", val |-> v]

Bail(msg, v) == [ok |-> FALSE, err |-> msg, val |-> v]

\* TaskFileOwners::check(fname, owners)
check(owners, fname, file_owner) ==
    IF fname \notin DOMAIN owners THEN Bail("Assign: file name not exist in ownership spec", owners)
    ELSE IF owners[fname] # file_owner THEN Bail("Assign: file ownership mismatch", owners)
    ELSE Ok(owners)

\* TaskFiles::assign(fname, file)
assign(files, fname, file) ==
    IF fname \in DOMAIN files THEN Bail("Assign: file already assigned", files)
    ELSE Ok(MapPut(files, fname, file))

\* TaskFiles<TeaclaveOutputFile>::update_cmac(fname, auth_tag)
update_cmac(files, fname, auth_tag) ==
    IF fname \notin DOMAIN files THEN Bail("Update cmac: file not assigned", files)
    ELSE Ok([files EXCEPT ![fname] = [@ EXCEPT !.cmac = auth_tag]])

\* ------------------------------------------------------------------------
\* TaskState
\* ------------------------------------------------------------------------
\* TaskState::default()
DefaultTaskState ==
    [task_id |-> 0,
     creator |-> "",
     function_owner |-> "",
     function_arguments |-> EmptyMap,
     inputs_ownership |-> EmptyMap,
     outputs_ownership |-> EmptyMap,
     participants |-> {},
     approved_users |-> {},
     assigned_inputs |-> EmptyMap,
     assigned_outputs |-> EmptyMap,
     result |-> "Unset",
     status |-> "Created"]

\* a quorum check without the single-user case
everyone_approved_strict(ts) == ts.participants = ts.approved_users

everyone_approved(ts) ==
    (Cardinality(ts.participants) = 1) \/ (ts.participants = ts.approved_users)

\* a gate that compares the input names only
all_data_assigned_inputs_only(ts) ==
    DOMAIN ts.inputs_ownership = DOMAIN ts.assigned_inputs

all_data_assigned(ts) ==
    IF DOMAIN ts.inputs_ownership # DOMAIN ts.assigned_inputs THEN FALSE
    ELSE IF DOMAIN ts.outputs_ownership # DOMAIN ts.assigned_outputs THEN FALSE
    ELSE TRUE

has_participant(ts, user_id) == user_id \in ts.participants

has_creator(ts, user_id) == ts.creator = user_id

\* ------------------------------------------------------------------------
\* Task<S>: a TaskState wrapped with a state tag
\* ------------------------------------------------------------------------
TaskNew(tag, ts) == [state |-> ts, extra |-> tag]

NoView == [state |-> DefaultTaskState, extra |-> "None"]

\* the function descriptors a task can be created for
Functions ==
    [public : BOOLEAN, owner : Users, arguments : SUBSET ArgNames,
     inputs : SUBSET InNames, outputs : SUBSET OutNames]

\* the descriptors used when two callers work on the task at once
FunctionsCas ==
    [public : BOOLEAN, owner : {"bob"}, arguments : {ArgNames},
     inputs : {InNames}, outputs : {{}}]

\* a constructor that checks the input keys before the function arguments
TaskCreateNew_inputs_first(requester, req_func_args, req_input_owners, req_output_owners, function) ==
    LET participants == unions({all_owners(req_input_owners), all_owners(req_output_owners)})
                            \cup {requester}
                            \cup (IF ~function.public THEN {function.owner} ELSE {})
    IN  IF function.inputs # DOMAIN req_input_owners
            THEN Bail("input keys mismatch", NoView)
        ELSE IF function.arguments # DOMAIN req_func_args
            THEN Bail("function_arguments mismatch", NoView)
        ELSE IF function.outputs # DOMAIN req_output_owners
            THEN Bail("output keys mismatch", NoView)
        ELSE Ok(TaskNew("Create",
                    [DefaultTaskState EXCEPT
                        !.task_id = 1,
                        !.creator = requester,
                        !.function_owner = function.owner,
                        !.function_arguments = req_func_args,
                        !.inputs_ownership = req_input_owners,
                        !.outputs_ownership = req_output_owners,
                        !.participants = participants]))

\* a constructor that leaves the owner of a private function out
TaskCreateNew_without_function_owner(requester, req_func_args, req_input_owners, req_output_owners, function) ==
    LET participants == unions({all_owners(req_input_owners), all_owners(req_output_owners)})
                            \cup {requester}
    IN  IF function.arguments # DOMAIN req_func_args
            THEN Bail("function_arguments mismatch", NoView)
        ELSE IF function.inputs # DOMAIN req_input_owners
            THEN Bail("input keys mismatch", NoView)
        ELSE IF function.outputs # DOMAIN req_output_owners
            THEN Bail("output keys mismatch", NoView)
        ELSE Ok(TaskNew("Create",
                    [DefaultTaskState EXCEPT
                        !.task_id = 1,
                        !.creator = requester,
                        !.function_owner = function.owner,
                        !.function_arguments = req_func_args,
                        !.inputs_ownership = req_input_owners,
                        !.outputs_ownership = req_output_owners,
                        !.participants = participants]))

\* Task<Create>::new
TaskCreateNew(requester, req_func_args, req_input_owners, req_output_owners, function) ==
    LET input_owners == all_owners(req_input_owners)
        output_owners == all_owners(req_output_owners)
        participants == unions({input_owners, output_owners}) \cup {requester}
                            \cup (IF ~function.public THEN {function.owner} ELSE {})
    IN  IF function.arguments # DOMAIN req_func_args
            THEN Bail("function_arguments mismatch", NoView)
        ELSE IF function.inputs # DOMAIN req_input_owners
            THEN Bail("input keys mismatch", NoView)
        ELSE IF function.outputs # DOMAIN req_output_owners
            THEN Bail("output keys mismatch", NoView)
        ELSE Ok(TaskNew("Create",
                    [DefaultTaskState EXCEPT
                        !.task_id = 1,
                        !.creator = requester,
                        !.function_owner = function.owner,
                        !.function_arguments = req_func_args,
                        !.inputs_ownership = req_input_owners,
                        !.outputs_ownership = req_output_owners,
                        !.participants = participants]))

\* an assign_input that does not ask whether the requester owns the file
assign_input_any_requester(task, requester, fname, file) ==
    LET c == check(task.state.inputs_ownership, fname, file.owner)
        a == assign(task.state.assigned_inputs, fname, file)
    IN  IF ~c.ok THEN Bail(c.err, task)
        ELSE IF ~a.ok THEN Bail(a.err, task)
        ELSE Ok([task EXCEPT !.state.assigned_inputs = a.val])

\* Task<Assign>::assign_input
assign_input(task, requester, fname, file) ==
    IF requester \notin file.owner
        THEN Bail("Assign: requester is not in the owner list", task)
    ELSE LET c == check(task.state.inputs_ownership, fname, file.owner)
             a == assign(task.state.assigned_inputs, fname, file)
         IN  IF ~c.ok THEN Bail(c.err, task)
             ELSE IF ~a.ok THEN Bail(a.err, task)
             ELSE Ok([task EXCEPT !.state.assigned_inputs = a.val])

\* Task<Assign>::assign_output
assign_output(task, requester, fname, file) ==
    IF requester \notin file.owner
        THEN Bail("Assign: requester is not in the owner list", task)
    ELSE LET c == check(task.state.outputs_ownership, fname, file.owner)
             a == assign(task.state.assigned_outputs, fname, file)
         IN  IF ~c.ok THEN Bail(c.err, task)
             ELSE IF ~a.ok THEN Bail(a.err, task)
             ELSE Ok([task EXCEPT !.state.assigned_outputs = a.val])

\* an approve that skips the participant check
approve_anyone(task, requester) ==
    Ok([task EXCEPT !.state.approved_users = @ \cup {requester}])

\* an approve that records the requester before it checks them
approve_insert_first(task, requester) ==
    LET t == [task EXCEPT !.state.approved_users = @ \cup {requester}]
    IN  IF requester \notin task.state.participants
            THEN Bail("Unexpected user trying to approve a task", t)
        ELSE Ok(t)

\* Task<Approve>::approve
approve(task, requester) ==
    IF requester \notin task.state.participants
        THEN Bail("Unexpected user trying to approve a task", task)
    ELSE Ok([task EXCEPT !.state.approved_users = @ \cup {requester}])

\* the dispatch record built by stage_for_running (the fields taken from the task)
StagedTaskOf(ts) ==
    [task_id |-> ts.task_id,
     function_arguments |-> ts.function_arguments,
     input_data |-> ts.assigned_inputs,
     output_data |-> ts.assigned_outputs]

\* a stage_for_running that any participant may call
stage_for_running_participant(task, requester) ==
    IF ~has_participant(task.state, requester)
        THEN Bail("Requestor is not the task creater", task)
    ELSE Ok(task)

\* Task<Stage>::stage_for_running: the task is left as it is
stage_for_running(task, requester) ==
    IF ~has_creator(task.state, requester)
        THEN Bail("Requestor is not the task creater", task)
    ELSE Ok(task)

\* Task<Finish>::update_output_cmac
update_output_cmac(task, fname, auth_tag) ==
    LET u == update_cmac(task.state.assigned_outputs, fname, auth_tag)
    IN  IF ~u.ok THEN Bail(u.err, task)
        ELSE Ok([task EXCEPT !.state.assigned_outputs = u.val])

\* Task<Finish>::update_result
update_result(task, result) == Ok([task EXCEPT !.state.result = result])

\* ------------------------------------------------------------------------
\* Forward conversions between views (TryFrom<Task<A>> for Task<B>)
\* ------------------------------------------------------------------------
\* a conversion that lets any Assign view through
ApproveFromAssign_ungated(task) == Ok(TaskNew("Approve", task.state))

ApproveFromAssign(task) ==
    IF ~all_data_assigned(task.state) THEN Bail("Not ready: Assign -> Approve", NoView)
    ELSE Ok(TaskNew("Approve", task.state))

\* a conversion that lets any Approve view through
StageFromApprove_ungated(task) == Ok(TaskNew("Stage", task.state))

StageFromApprove(task) ==
    IF ~everyone_approved(task.state) THEN Bail("Not ready: Apporve -> Stage", NoView)
    ELSE Ok(TaskNew("Stage", task.state))

RunFromStage(task) == Ok(TaskNew("Run", task.state))

FinishFromRun(task) == Ok(TaskNew("Finish", task.state))

DoneFromFinish(task) == Ok(TaskNew("Done", task.state))

\* the forward conversion a view of each tag has
ForwardTags == {"Assign", "Approve", "Stage", "Run", "Finish"}

Forward(task) ==
    CASE task.extra = "Assign" -> ApproveFromAssign(task)
      [] task.extra = "Approve" -> StageFromApprove(task)
      [] task.extra = "Stage" -> RunFromStage(task)
      [] task.extra = "Run" -> FinishFromRun(task)
      [] task.extra = "Finish" -> DoneFromFinish(task)

\* ------------------------------------------------------------------------
\* Restore conversions (TryFrom<TaskState> for Task<S>)
\* ------------------------------------------------------------------------
\* a restore to Assign that does not look at the saved status
AssignFromState_any(ts) == Ok(TaskNew("Assign", ts))

AssignFromState(ts) ==
    IF ts.status = "Created" THEN Ok(TaskNew("Assign", ts))
    ELSE Bail("Cannot restore to Assign from saved state ", NoView)

ApproveFromState(ts) ==
    IF ts.status = "Created"
        THEN LET task == AssignFromState(ts)
             IN  IF ~task.ok THEN task ELSE ApproveFromAssign(task.val)
    ELSE IF ts.status = "DataAssigned" THEN Ok(TaskNew("Approve", ts))
    ELSE Bail("Cannot restore to Approve from saved state", NoView)

\* a restore to Stage that advances without asking for the approvals
StageFromState_no_quorum(ts) ==
    IF ts.status \in {"Created", "DataAssigned"}
        THEN LET task == ApproveFromState(ts)
             IN  IF ~task.ok THEN task ELSE Ok(TaskNew("Stage", task.val.state))
    ELSE IF ts.status = "Approved" THEN Ok(TaskNew("Stage", ts))
    ELSE Bail("Cannot restore to Stage from saved state", NoView)

StageFromState(ts) ==
    IF ts.status \in {"Created", "DataAssigned"}
        THEN LET task == ApproveFromState(ts)
             IN  IF ~task.ok THEN task ELSE StageFromApprove(task.val)
    ELSE IF ts.status = "Approved" THEN Ok(TaskNew("Stage", ts))
    ELSE Bail("Cannot restore to Stage from saved state", NoView)

\* a restore to Run that also takes a record the executor already picked up
RunFromState_running(ts) ==
    IF ts.status \in {"Staged", "Running"} THEN Ok(TaskNew("Run", ts))
    ELSE Bail("Cannot restore to Run from saved state", NoView)

RunFromState(ts) ==
    IF ts.status = "Staged" THEN Ok(TaskNew("Run", ts))
    ELSE Bail("Cannot restore to Run from saved state", NoView)

\* a restore to Finish that also takes a Finished record
FinishFromState_finished(ts) ==
    IF ts.status \in {"Running", "Finished"} THEN Ok(TaskNew("Finish", ts))
    ELSE Bail("Cannot restore to Finish from saved state", NoView)

FinishFromState(ts) ==
    IF ts.status = "Running" THEN Ok(TaskNew("Finish", ts))
    ELSE Bail("Cannot restore to Finish from saved state", NoView)

\* the tags that have a restore conversion: there is none for Create and Done
RestoreTags == {"Assign", "Approve", "Stage", "Run", "Finish"}

Restore(tag, ts) ==
    CASE tag = "Assign" -> AssignFromState(ts)
      [] tag = "Approve" -> ApproveFromState(ts)
      [] tag = "Stage" -> StageFromState(ts)
      [] tag = "Run" -> RunFromState(ts)
      [] tag = "Finish" -> FinishFromState(ts)

\* ------------------------------------------------------------------------
\* Persist conversions (From<Task<S>> for TaskState)
\* ------------------------------------------------------------------------
StateFromCreate(task) == [task.state EXCEPT !.status = "Created"]

\* try the next view; write its status, or the view's own status on failure
StateFromTry(task, nt) ==
    IF nt.ok THEN [nt.val.state EXCEPT !.status = StatusOfTag(nt.val.extra)]
    ELSE [task.state EXCEPT !.status = StatusOfTag(task.extra)]

\* a persist conversion that advances an Assign view through two phases
StateFromAssign_two_phases(task) ==
    LET nt == ApproveFromAssign(task)
    IN  IF nt.ok THEN StateFromTry(nt.val, StageFromApprove(nt.val))
        ELSE [task.state EXCEPT !.status = StatusOfTag(task.extra)]

StateFromAssign(task) == StateFromTry(task, ApproveFromAssign(task))

StateFromApprove(task) == StateFromTry(task, StageFromApprove(task))

StateFromStage(task) == StateFromTry(task, RunFromStage(task))

StateFromRun(task) == StateFromTry(task, FinishFromRun(task))

StateFromFinish(task) == StateFromTry(task, DoneFromFinish(task))

\* the tags that have a persist conversion: the one for Done is commented out
PersistTags == {"Create", "Assign", "Approve", "Stage", "Run", "Finish"}

TaskStateFrom(task) ==
    CASE task.extra = "Create" -> StateFromCreate(task)
      [] task.extra = "Assign" -> StateFromAssign(task)
      [] task.extra = "Approve" -> StateFromApprove(task)
      [] task.extra = "Stage" -> StateFromStage(task)
      [] task.extra = "Run" -> StateFromRun(task)
      [] task.extra = "Finish" -> StateFromFinish(task)

\* ------------------------------------------------------------------------
\* State
\* ------------------------------------------------------------------------
VARIABLES
    store,       \* the persisted task records (empty before creation)
    view,        \* view[c]: the Task<S> caller c holds, or NoView
    base,        \* base[c]: the record caller c loaded for its current cycle
    dispatched,  \* the StagedTask records handed out by stage_for_running
    hist,        \* every status that was ever persisted for the task
    last,        \* the last call and its outcome
    request      \* the arguments of the last Task<Create>::new call

vars == <<store, view, base, dispatched, hist, last, request>>

\* the arguments of Task<Create>::new
Request(requester, req_func_args, req_input_owners, req_output_owners, function) ==
    [requester |-> requester, func_args |-> req_func_args,
     input_owners |-> req_input_owners, output_owners |-> req_output_owners,
     function |-> function]

NoRequest ==
    Request("", EmptyMap, EmptyMap, EmptyMap,
            [public |-> TRUE, owner |-> "", arguments |-> {}, inputs |-> {}, outputs |-> {}])

Call(op, who, tag, r) ==
    [op |-> op, who |-> who, tag |-> tag, ok |-> r.ok, err |-> r.err]

\* the inputs of the calls
OwnerSets == {{"alice"}, {"alice", "bob"}}

Files == {FileOf(o) : o \in OwnerSets \cup {{"bob"}}}

Init ==
    /\ store = {}
    /\ view = [c \in Callers |-> NoView]
    /\ base = [c \in Callers |-> DefaultTaskState]
    /\ dispatched = {}
    /\ hist = {}
    /\ last = Call("init", "", "None", Ok(NoView))
    /\ request = NoRequest

\* ------------------------------------------------------------------------
\* Actions
\* ------------------------------------------------------------------------
\* create a task and persist the Create view
Create(requesters, functions) ==
    /\ store = {}
    /\ \E requester \in requesters, function \in functions,
          req_func_args \in MapsOver(ArgNames, {"1"}),
          req_input_owners \in MapsOver(InNames, OwnerSets),
          req_output_owners \in MapsOver(OutNames, OwnerSets) :
            LET r == TaskCreateNew(requester, req_func_args, req_input_owners,
                                   req_output_owners, function)
            IN  /\ last' = Call("create", requester, "Create", r)
                /\ request' = Request(requester, req_func_args, req_input_owners,
                                      req_output_owners, function)
                /\ IF r.ok
                     THEN LET ts == TaskStateFrom(r.val)
                          IN  /\ store' = {ts}
                              /\ hist' = {ts.status}
                     ELSE UNCHANGED <<store, hist>>
    /\ UNCHANGED <<view, base, dispatched>>

\* load the record and restore it to the view of the requested tag
RestoreView(c) ==
    /\ view[c] = NoView
    /\ \E ts \in store, tag \in RestoreTags :
            LET r == Restore(tag, ts)
            IN  /\ last' = Call("restore", "", tag, r)
                /\ IF r.ok
                     THEN /\ view' = [view EXCEPT ![c] = r.val]
                          /\ base' = [base EXCEPT ![c] = ts]
                     ELSE UNCHANGED <<view, base>>
    /\ UNCHANGED <<store, dispatched, hist, request>>

\* a fallible &mut self operation on the held view: the view is left as the
\* call left it, with or without an error
Mutate(c, op, who, r) ==
    /\ view' = [view EXCEPT ![c] = r.val]
    /\ last' = Call(op, who, view[c].extra, r)

AssignInput(c) ==
    /\ view[c].extra = "Assign"
    /\ \E requester \in Users, fname \in InNames, file \in Files :
            Mutate(c, "assign_input", requester, assign_input(view[c], requester, fname, file))
    /\ UNCHANGED <<store, base, dispatched, hist, request>>

AssignOutput(c) ==
    /\ view[c].extra = "Assign"
    /\ \E requester \in Users, fname \in OutNames, file \in Files :
            Mutate(c, "assign_output", requester, assign_output(view[c], requester, fname, file))
    /\ UNCHANGED <<store, base, dispatched, hist, request>>

Approve(c) ==
    /\ view[c].extra = "Approve"
    /\ \E requester \in Users :
            Mutate(c, "approve", requester, approve(view[c], requester))
    /\ UNCHANGED <<store, base, dispatched, hist, request>>

StageForRunning(c) ==
    /\ view[c].extra = "Stage"
    /\ \E requester \in Users :
            LET r == stage_for_running(view[c], requester)
            IN  /\ Mutate(c, "stage_for_running", requester, r)
                /\ dispatched' = IF r.ok THEN dispatched \cup {StagedTaskOf(view[c].state)}
                                 ELSE dispatched
    /\ UNCHANGED <<store, base, hist, request>>

UpdateOutputCmac(c) ==
    /\ view[c].extra = "Finish"
    /\ \E fname \in OutNames, auth_tag \in AuthTags :
            Mutate(c, "update_output_cmac", "", update_output_cmac(view[c], fname, auth_tag))
    /\ UNCHANGED <<store, base, dispatched, hist, request>>

UpdateResult(c) ==
    /\ view[c].extra = "Finish"
    /\ \E result \in TaskResult :
            /\ Mutate(c, "update_result", "", update_result(view[c], result))
            /\ view'[c] # view[c]
    /\ UNCHANGED <<store, base, dispatched, hist, request>>

\* the forward conversion of the held view; the view is consumed
Convert(c) ==
    /\ view[c].extra \in ForwardTags
    /\ LET r == Forward(view[c])
       IN  /\ view' = [view EXCEPT ![c] = r.val]
           /\ last' = Call("convert", "", view[c].extra, r)
    /\ UNCHANGED <<store, base, dispatched, hist, request>>

\* convert the held view to a TaskState and write it over the record the
\* cycle loaded; the write is refused when the record has changed since
Persist(c) ==
    /\ view[c].extra \in PersistTags
    /\ LET ts == TaskStateFrom(view[c])
           swapped == (store = {base[c]})
       IN  /\ store' = IF swapped THEN {ts} ELSE store
           /\ hist' = IF swapped THEN hist \cup {ts.status} ELSE hist
           /\ last' = Call("persist", "", view[c].extra,
                           IF swapped THEN Ok(NoView) ELSE Bail("record changed", NoView))
    /\ view' = [view EXCEPT ![c] = NoView]
    /\ base' = [base EXCEPT ![c] = DefaultTaskState]
    /\ UNCHANGED <<dispatched, request>>

\* give up the held view
Drop(c) ==
    /\ view[c] # NoView
    /\ view' = [view EXCEPT ![c] = NoView]
    /\ base' = [base EXCEPT ![c] = DefaultTaskState]
    /\ last' = Call("drop", "", view[c].extra, Ok(NoView))
    /\ UNCHANGED <<store, dispatched, hist, request>>

CreateTask == Create(Users, Functions)

CreateTaskCas == Create({"alice"}, FunctionsCas)

\* one step of a caller's cycle
Step(c) ==
    \/ RestoreView(c)
    \/ AssignInput(c)
    \/ AssignOutput(c)
    \/ Approve(c)
    \/ StageForRunning(c)
    \/ UpdateOutputCmac(c)
    \/ UpdateResult(c)
    \/ Convert(c)
    \/ Persist(c)
    \/ Drop(c)

\* one caller at a time owns the task
Next == CreateTask \/ Step("c1")

Spec == Init /\ [][Next]_vars

\* several callers interleave their cycles on the same record
NextCas == CreateTaskCas \/ \E c \in Callers : Step(c)

SpecCas == Init /\ [][NextCas]_vars

\* ------------------------------------------------------------------------
\* The conversions applied to arbitrary saved records
\* ------------------------------------------------------------------------
AnyTaskState ==
    [task_id : {1},
     creator : Users,
     function_owner : {"bob"},
     function_arguments : {[n \in ArgNames |-> "1"]},
     inputs_ownership : MapsOver(InNames, {{"alice"}}),
     outputs_ownership : MapsOver(OutNames, {{"alice"}}),
     participants : (SUBSET Users) \ {{}},
     approved_users : SUBSET Users,
     assigned_inputs : MapsOver(InNames, {FileOf({"alice"})}),
     assigned_outputs : MapsOver(OutNames, {FileOf({"alice"})}),
     result : TaskResult,
     status : TaskStatus]

InitAny ==
    /\ \E ts \in AnyTaskState : store = {ts} /\ hist = {ts.status}
    /\ view = [c \in Callers |-> NoView]
    /\ base = [c \in Callers |-> DefaultTaskState]
    /\ dispatched = {}
    /\ last = Call("init", "", "None", Ok(NoView))
    /\ request = NoRequest

\* restore, convert forward, persist: no view operation in between
NextAny == RestoreView("c1") \/ Convert("c1") \/ Persist("c1") \/ Drop("c1")

SpecAny == InitAny /\ [][NextAny]_vars

\* ------------------------------------------------------------------------
\* Properties
\* ------------------------------------------------------------------------
\* the order Created < DataAssigned < Approved < Staged < Running < Finished
\* of the state machine; Failed stands where Finished does
Rank(s) ==
    CASE s = "Created" -> 0
      [] s = "DataAssigned" -> 1
      [] s = "Approved" -> 2
      [] s = "Staged" -> 3
      [] s = "Running" -> 4
      [] s = "Finished" -> 5
      [] s = "Failed" -> 5

AtLeast(ts, status) == Rank(ts.status) >= Rank(status)

\* C1: every persisted status is at or after every status persisted before
\* it for the task, also when the cycles of several callers interleave
\* under the compare-and-swap on the record.
MonotonicStatus ==
    \A ts \in store : \A s \in hist : Rank(ts.status) >= Rank(s)

\* a stale write was refused after the task had run to Finished
MonotonicStatusWitness ==
    /\ last.op = "persist" /\ ~last.ok
    /\ \E ts \in store : ts.status = "Finished"
    /\ hist = TaskStatus \ {"Failed"}

\* C2: a persisted record with status Approved or later binds exactly the
\* declared input and output names, each to a file whose owner list is the
\* declared one.
AssignedWhenApproved ==
    \A ts \in store :
        AtLeast(ts, "Approved") =>
            /\ DOMAIN ts.assigned_inputs = DOMAIN ts.inputs_ownership
            /\ DOMAIN ts.assigned_outputs = DOMAIN ts.outputs_ownership
            /\ \A n \in DOMAIN ts.assigned_inputs :
                    ts.assigned_inputs[n].owner = ts.inputs_ownership[n]
            /\ \A n \in DOMAIN ts.assigned_outputs :
                    ts.assigned_outputs[n].owner = ts.outputs_ownership[n]

\* an Approved record with a declared input and a declared output
AssignedWhenApprovedWitness ==
    \E ts \in store :
        /\ ts.status = "Approved"
        /\ DOMAIN ts.inputs_ownership = InNames
        /\ DOMAIN ts.outputs_ownership = OutNames
        /\ ts.assigned_inputs["in"].owner = {"alice", "bob"}

\* C3: a persisted record with status Staged or later has one participant
\* or has the approval of every participant.
ApprovedWhenStaged ==
    \A ts \in store :
        AtLeast(ts, "Staged") =>
            \/ Cardinality(ts.participants) = 1
            \/ ts.approved_users = ts.participants

\* a Staged record of a task with two participants
ApprovedWhenStagedWitness ==
    \E ts \in store :
        /\ ts.status = "Staged"
        /\ ts.participants = {"alice", "bob"}
        /\ ts.approved_users = {"alice", "bob"}

\* C4: approved_users is a subset of participants in the record and in every
\* held view; it is empty after creation, and approve succeeds exactly for
\* the participants.
ApprovedAreParticipants ==
    /\ \A ts \in store : ts.approved_users \subseteq ts.participants
    /\ \A c \in Callers : view[c].state.approved_users \subseteq view[c].state.participants
    /\ last.op = "create" /\ last.ok => \A ts \in store : ts.approved_users = {}
    /\ last.op = "approve" => \A ts \in store : last.ok <=> last.who \in ts.participants

\* an approve by an outsider failed on a view that holds an approval
ApprovedAreParticipantsWitness ==
    /\ last.op = "approve" /\ ~last.ok
    /\ \E c \in Callers : view[c].extra = "Approve" /\ view[c].state.approved_users # {}

\* C5: a persisted record carries a result exactly when its status is
\* Finished or Failed.
ResultIffFinished ==
    \A ts \in store : ts.result # "Unset" <=> ts.status \in {"Finished", "Failed"}

\* C6: the persisted status is Staged only after a stage_for_running call
\* has succeeded on the task.
StagedOnlyByCreator ==
    \A ts \in store : ts.status = "Staged" => dispatched # {}

\* C7: a restore succeeds only from the statuses listed for its target, and
\* from any other status it fails with a "Cannot restore" error.
RestoreSources(tag) ==
    CASE tag = "Assign" -> {"Created"}
      [] tag = "Approve" -> {"Created", "DataAssigned"}
      [] tag = "Stage" -> {"Created", "DataAssigned", "Approved"}
      [] tag = "Run" -> {"Staged"}
      [] tag = "Finish" -> {"Running"}

CannotRestore ==
    {"Cannot restore to Assign from saved state ",
     "Cannot restore to Approve from saved state",
     "Cannot restore to Stage from saved state",
     "Cannot restore to Run from saved state",
     "Cannot restore to Finish from saved state"}

RestoreOnlyFromListed ==
    last.op = "restore" =>
        \A ts \in store :
            /\ last.ok => ts.status \in RestoreSources(last.tag)
            /\ ts.status \notin RestoreSources(last.tag) =>
                    ~last.ok /\ last.err \in CannotRestore

\* a restore to Stage refused for a Failed record
RestoreOnlyFromListedWitness ==
    /\ last.op = "restore" /\ ~last.ok /\ last.tag = "Stage"
    /\ \E ts \in store : ts.status = "Failed"

\* C8: a Finished record can be restored to the Done view and a Done view can
\* be persisted.
DoneRestoreAndPersist ==
    \A c \in Callers :
        /\ (view[c] = NoView /\ \E ts \in store : ts.status = "Finished")
                => ENABLED (RestoreView(c) /\ view'[c].extra = "Done")
        /\ view[c].extra = "Done" => ENABLED Persist(c)

\* C9: restoring a record to the view matching its status and persisting the
\* view at once gives back the record, up to an advanced status.
MatchingView(status) ==
    CASE status = "Created" -> "Assign"
      [] status = "DataAssigned" -> "Approve"
      [] status = "Approved" -> "Stage"
      [] status = "Staged" -> "Run"
      [] status = "Running" -> "Finish"
      [] status = "Finished" -> "Done"

RoundTripOf(ts) ==
    LET tag == MatchingView(ts.status)
    IN  /\ tag \in RestoreTags \cap PersistTags
        /\ Restore(tag, ts).ok
        /\ LET back == TaskStateFrom(Restore(tag, ts).val)
           IN  /\ [back EXCEPT !.status = ts.status] = ts
               /\ Rank(back.status) >= Rank(ts.status)

RoundTrip ==
    \A ts \in store : ts.status # "Failed" => RoundTripOf(ts)

\* C10: a Created record with every declared name assigned and one
\* participant restores to the Stage view, and persisting that view writes
\* status Approved.
RestoreAutoAdvance ==
    \A ts \in store :
        (/\ ts.status = "Created"
         /\ DOMAIN ts.assigned_inputs = DOMAIN ts.inputs_ownership
         /\ DOMAIN ts.assigned_outputs = DOMAIN ts.outputs_ownership
         /\ Cardinality(ts.participants) = 1)
            => /\ Restore("Stage", ts).ok
               /\ TaskStateFrom(Restore("Stage", ts).val).status = "Approved"

\* C11: Task<Create>::new succeeds exactly when the keys of the function
\* arguments, of the input owners and of the output owners equal the names
\* the function declares; the first violated condition, in that order, names
\* the error; no task is produced on error, and a created task has status
\* Created, no approvals, no assigned files and no result.
ArgsMatch == DOMAIN request.func_args = request.function.arguments

InputsMatch == DOMAIN request.input_owners = request.function.inputs

OutputsMatch == DOMAIN request.output_owners = request.function.outputs

CreationValidated ==
    last.op = "create" =>
        /\ last.ok <=> (ArgsMatch /\ InputsMatch /\ OutputsMatch)
        /\ ~ArgsMatch => last.err = "function_arguments mismatch"
        /\ ArgsMatch /\ ~InputsMatch => last.err = "input keys mismatch"
        /\ ArgsMatch /\ InputsMatch /\ ~OutputsMatch => last.err = "output keys mismatch"
        /\ ~last.ok => store = {}
        /\ last.ok =>
            /\ Cardinality(store) = 1
            /\ \A ts \in store :
                /\ ts.status = "Created"
                /\ ts.approved_users = {}
                /\ ts.assigned_inputs = EmptyMap
                /\ ts.assigned_outputs = EmptyMap
                /\ ts.result = "Unset"

\* a creation refused for its input keys although the argument keys match
\* and the output keys do not
CreationValidatedWitness ==
    /\ last.op = "create" /\ ~last.ok
    /\ ArgsMatch /\ ~InputsMatch /\ ~OutputsMatch
    /\ request.function.arguments = ArgNames

\* C12: stage_for_running succeeds exactly when the requester is the task
\* creator, whoever has approved.
StageOnlyByCreator ==
    last.op = "stage_for_running" =>
        \A ts \in store : last.ok <=> last.who = ts.creator

\* a participant other than the creator was refused although everyone approved
StageOnlyByCreatorWitness ==
    /\ last.op = "stage_for_running" /\ ~last.ok
    /\ \E c \in Callers :
        /\ view[c].extra = "Stage"
        /\ last.who \in view[c].state.participants
        /\ Cardinality(view[c].state.participants) > 1
        /\ view[c].state.approved_users = view[c].state.participants

\* C13: for a task whose only participant is its creator every step of
\* create, assign all declared files, Assign->Approve, Approve->Stage without
\* any approve, stage_for_running by the creator, Stage->Run, Run->Finish,
\* update_result, Finish->Done succeeds, and the Finish view is persisted as
\* Finished.
SingleUser(ts) == ts.participants = {ts.creator}

HappyPathStep(v) ==
    LET ts == v.state
        me == ts.creator
    IN  /\ v.extra = "Assign" =>
            /\ \A n \in (DOMAIN ts.inputs_ownership) \ (DOMAIN ts.assigned_inputs) :
                    assign_input(v, me, n, FileOf({me})).ok
            /\ \A n \in (DOMAIN ts.outputs_ownership) \ (DOMAIN ts.assigned_outputs) :
                    assign_output(v, me, n, FileOf({me})).ok
            /\ (/\ DOMAIN ts.inputs_ownership = DOMAIN ts.assigned_inputs
                /\ DOMAIN ts.outputs_ownership = DOMAIN ts.assigned_outputs)
                    => ApproveFromAssign(v).ok
        /\ v.extra = "Approve" => StageFromApprove(v).ok
        /\ v.extra = "Stage" => stage_for_running(v, me).ok /\ RunFromStage(v).ok
        /\ v.extra = "Run" => FinishFromRun(v).ok
        /\ v.extra = "Finish" =>
            /\ update_result(v, "Ok").ok
            /\ DoneFromFinish(v).ok
            /\ TaskStateFrom(update_result(v, "Ok").val).status = "Finished"

HappyPath ==
    /\ \A ts \in store : SingleUser(ts) /\ ts.status = "Created" => Restore("Assign", ts).ok
    /\ \A c \in Callers : SingleUser(view[c].state) => HappyPathStep(view[c])

\* the path was walked in one cycle: the record went from Created to Finished
\* with both files bound, no approval, a dispatch record and a success result
HappyPathWitness ==
    /\ hist = {"Created", "Finished"}
    /\ dispatched # {}
    /\ last.op = "persist" /\ last.ok /\ last.tag = "Finish"
    /\ \E ts \in store :
        /\ SingleUser(ts)
        /\ ts.status = "Finished"
        /\ ts.result = "Ok"
        /\ ts.approved_users = {}
        /\ DOMAIN ts.assigned_inputs = InNames
        /\ DOMAIN ts.assigned_outputs = OutNames

\* C14: Assign->Approve succeeds exactly when the assigned names equal the
\* declared names, Approve->Stage exactly when there is one participant or
\* everyone has approved, and Stage->Run, Run->Finish and Finish->Done always
\* succeed.
ForwardGatedOn(v) ==
    LET ts == v.state
    IN  /\ v.extra = "Assign" =>
            (ApproveFromAssign(v).ok <=>
                /\ DOMAIN ts.assigned_inputs = DOMAIN ts.inputs_ownership
                /\ DOMAIN ts.assigned_outputs = DOMAIN ts.outputs_ownership)
        /\ v.extra = "Approve" =>
            (StageFromApprove(v).ok <=>
                \/ Cardinality(ts.participants) = 1
                \/ ts.approved_users = ts.participants)
        /\ v.extra = "Stage" => RunFromStage(v).ok
        /\ v.extra = "Run" => FinishFromRun(v).ok
        /\ v.extra = "Finish" => DoneFromFinish(v).ok

ForwardGated ==
    /\ \A c \in Callers : ForwardGatedOn(view[c])
    /\ last.op = "convert" /\ last.tag \in {"Stage", "Run", "Finish"} => last.ok
    /\ last.op = "convert" /\ last.ok /\ last.tag = "Assign" =>
            \E c \in Callers :
                /\ view[c].extra = "Approve"
                /\ DOMAIN view[c].state.assigned_inputs = DOMAIN view[c].state.inputs_ownership
                /\ DOMAIN view[c].state.assigned_outputs = DOMAIN view[c].state.outputs_ownership
    /\ last.op = "convert" /\ last.ok /\ last.tag = "Approve" =>
            \E c \in Callers :
                /\ view[c].extra = "Stage"
                /\ \/ Cardinality(view[c].state.participants) = 1
                   \/ view[c].state.approved_users = view[c].state.participants

\* Approve->Stage was refused while some, not all, participants had approved
ForwardGatedWitness ==
    /\ last.op = "convert" /\ ~last.ok /\ last.tag = "Approve"
    /\ \E ts \in store :
        /\ ts.approved_users # {}
        /\ ts.approved_users # ts.participants
        /\ ts.status = "DataAssigned"

\* C15: persisting an Assign view writes DataAssigned when every declared name
\* is assigned and Created otherwise; persisting an Approve view writes
\* Approved when there is one participant or everyone approved and
\* DataAssigned otherwise; the written status is at most one phase past the
\* status of the view's tag, and no other field is changed.
PersistedFrom(v, ts) ==
    LET old == v.state
        assigned == /\ DOMAIN old.assigned_inputs = DOMAIN old.inputs_ownership
                    /\ DOMAIN old.assigned_outputs = DOMAIN old.outputs_ownership
        approved == \/ Cardinality(old.participants) = 1
                    \/ old.approved_users = old.participants
    IN  /\ [ts EXCEPT !.status = old.status] = old
        /\ Rank(ts.status) <= Rank(StatusOfTag(v.extra)) + 1
        /\ v.extra = "Assign" => ts.status = IF assigned THEN "DataAssigned" ELSE "Created"
        /\ v.extra = "Approve" => ts.status = IF approved THEN "Approved" ELSE "DataAssigned"

PersistOnePhase ==
    [][\A c \in Callers :
        (last'.op = "persist" /\ last'.ok /\ view[c] # NoView /\ view'[c] = NoView)
            => \A ts \in store' : PersistedFrom(view[c], ts)]_vars

\* an Assign view with every name assigned and a single participant was
\* persisted as DataAssigned
PersistOnePhaseWitness ==
    /\ last.op = "persist" /\ last.ok /\ last.tag = "Assign"
    /\ \E ts \in store :
        /\ ts.status = "DataAssigned"
        /\ Cardinality(ts.participants) = 1
        /\ DOMAIN ts.assigned_inputs = InNames

\* C16: participants is the union of the declared owner lists, the requester
\* and, for a private function, the function owner; participants, creator,
\* task_id and the two ownership declarations stay as created in the record
\* and in every view, whatever is done afterwards.
AsCreated(ts) ==
    /\ ts.participants =
            UNION {request.input_owners[n] : n \in DOMAIN request.input_owners}
            \cup UNION {request.output_owners[n] : n \in DOMAIN request.output_owners}
            \cup {request.requester}
            \cup (IF request.function.public THEN {} ELSE {request.function.owner})
    /\ ts.creator = request.requester
    /\ ts.creator \in ts.participants
    /\ ts.task_id = 1
    /\ ts.inputs_ownership = request.input_owners
    /\ ts.outputs_ownership = request.output_owners

ParticipantsFixed ==
    /\ \A ts \in store : AsCreated(ts)
    /\ \A c \in Callers : view[c] # NoView => AsCreated(view[c].state)

\* a Finished task of a private function whose owner is a participant only
\* as the function owner
ParticipantsFixedWitness ==
    /\ ~request.function.public
    /\ request.function.owner # request.requester
    /\ \A n \in DOMAIN request.input_owners : request.function.owner \notin request.input_owners[n]
    /\ \A n \in DOMAIN request.output_owners : request.function.owner \notin request.output_owners[n]
    /\ \E ts \in store :
        /\ ts.status = "Finished"
        /\ DOMAIN ts.assigned_inputs = InNames
        /\ DOMAIN ts.assigned_outputs = OutNames
        /\ ts.assigned_outputs["out"].cmac # "none"

\* C17: assign_input and assign_output succeed exactly when the requester is
\* an owner of the file, the name is declared with the file's owner list and
\* the name is not bound yet; a success binds the name to the file and
\* nothing else, so a bound name is never bound again.
MayAssign(owners, files, requester, fname, file) ==
    /\ requester \in file.owner
    /\ fname \in DOMAIN owners
    /\ owners[fname] = file.owner
    /\ fname \notin DOMAIN files

Bound(files, fname, file) ==
    /\ DOMAIN files.new = DOMAIN files.old \cup {fname}
    /\ files.new[fname] = file
    /\ \A n \in DOMAIN files.old : files.new[n] = files.old[n]

AssignExactlyOn(v) ==
    \A requester \in Users, file \in Files :
        /\ \A fname \in InNames :
            LET r == assign_input(v, requester, fname, file)
            IN  /\ r.ok <=> MayAssign(v.state.inputs_ownership, v.state.assigned_inputs,
                                      requester, fname, file)
                /\ r.ok => /\ Bound([old |-> v.state.assigned_inputs,
                                     new |-> r.val.state.assigned_inputs], fname, file)
                           /\ [r.val EXCEPT !.state.assigned_inputs = v.state.assigned_inputs] = v
        /\ \A fname \in OutNames :
            LET r == assign_output(v, requester, fname, file)
            IN  /\ r.ok <=> MayAssign(v.state.outputs_ownership, v.state.assigned_outputs,
                                      requester, fname, file)
                /\ r.ok => /\ Bound([old |-> v.state.assigned_outputs,
                                     new |-> r.val.state.assigned_outputs], fname, file)
                           /\ [r.val EXCEPT !.state.assigned_outputs = v.state.assigned_outputs] = v

AssignExactly ==
    /\ \A c \in Callers : view[c].extra = "Assign" => AssignExactlyOn(view[c])
    /\ last.op = "assign_input" /\ last.ok =>
            \E c \in Callers : \E n \in DOMAIN view[c].state.assigned_inputs :
                /\ last.who \in view[c].state.assigned_inputs[n].owner
                /\ view[c].state.assigned_inputs[n].owner = view[c].state.inputs_ownership[n]
    /\ last.op = "assign_output" /\ last.ok =>
            \E c \in Callers : \E n \in DOMAIN view[c].state.assigned_outputs :
                /\ last.who \in view[c].state.assigned_outputs[n].owner
                /\ view[c].state.assigned_outputs[n].owner = view[c].state.outputs_ownership[n]

\* an owner named in the declaration was refused on an input that is bound
AssignExactlyWitness ==
    /\ last.op = "assign_input" /\ ~last.ok
    /\ \E c \in Callers :
        /\ view[c].extra = "Assign"
        /\ "in" \in DOMAIN view[c].state.assigned_inputs
        /\ last.who \in view[c].state.inputs_ownership["in"]
        /\ view[c].state.inputs_ownership["in"] = {"alice", "bob"}

\* C18: a failed assign_input, assign_output, approve or stage_for_running
\* leaves the view as it was, so persisting it writes what it would have
\* written before the call; a failed forward or restore conversion changes
\* no TaskState.
ViewOps == {"assign_input", "assign_output", "approve", "stage_for_running"}

UnchangedOnError ==
    [][~last'.ok =>
        /\ last'.op \in ViewOps =>
            /\ view' = view
            /\ store' = store
            /\ dispatched' = dispatched
            /\ \A c \in Callers :
                    view[c].extra \in PersistTags => TaskStateFrom(view'[c]) = TaskStateFrom(view[c])
        /\ last'.op = "restore" => view' = view /\ store' = store
        /\ last'.op = "convert" =>
            /\ store' = store
            /\ \A c \in Callers : view'[c] \in {view[c], NoView}]_vars

\* an assign_output failed on a view that holds a bound input
UnchangedOnErrorWitness ==
    /\ last.op = "assign_output" /\ ~last.ok
    /\ \E c \in Callers :
        /\ view[c].extra = "Assign"
        /\ "in" \in DOMAIN view[c].state.assigned_inputs
        /\ "out" \in DOMAIN view[c].state.outputs_ownership

\* C19: a restore that advances re-runs the gates: Created restores to
\* Approve only with every declared name assigned, and Created or
\* DataAssigned restore to Stage only with every declared name assigned and
\* the approval of everyone, so a record that breaks these is rejected.
GatesHold(ts) ==
    /\ DOMAIN ts.assigned_inputs = DOMAIN ts.inputs_ownership
    /\ DOMAIN ts.assigned_outputs = DOMAIN ts.outputs_ownership

QuorumHolds(ts) ==
    \/ Cardinality(ts.participants) = 1
    \/ ts.approved_users = ts.participants

RestoreRerunsGates ==
    last.op = "restore" /\ last.ok =>
        \A ts \in store :
            /\ last.tag = "Approve" /\ ts.status = "Created" => GatesHold(ts)
            /\ last.tag = "Stage" /\ ts.status \in {"Created", "DataAssigned"} =>
                    GatesHold(ts) /\ QuorumHolds(ts)


\* C19 as amended: a restore re-runs the gate of each conversion it performs:
\* Created restores to Approve exactly with every declared name assigned,
\* Created restores to Stage exactly with that and the approval of everyone,
\* and DataAssigned restores to Stage exactly with the approval of everyone,
\* whether or not its declared names are assigned.
RestoreRerunsPerformedGates ==
    last.op = "restore" =>
        \A ts \in store :
            /\ last.tag = "Approve" /\ ts.status = "Created" => (last.ok <=> GatesHold(ts))
            /\ last.tag = "Stage" /\ ts.status = "Created" =>
                    (last.ok <=> GatesHold(ts) /\ QuorumHolds(ts))
            /\ last.tag = "Stage" /\ ts.status = "DataAssigned" => (last.ok <=> QuorumHolds(ts))

\* a DataAssigned record with an unassigned declared input restored to Stage
RestoreRerunsPerformedGatesWitness ==
    /\ last.op = "restore" /\ last.ok /\ last.tag = "Stage"
    /\ \E ts \in store : ts.status = "DataAssigned" /\ ~GatesHold(ts)
    /\ \E c \in Callers : view[c].extra = "Stage"


\* C20: once the persisted status is Finished the persisted record never
\* changes again in any field.
FinishedIsTerminal ==
    [][(\E ts \in store : ts.status = "Finished") => store' = store]_vars

\* with the record Finished, a restore to Finish was refused while the other
\* caller still holds a view from an earlier load
FinishedIsTerminalWitness ==
    /\ \E ts \in store : ts.status = "Finished" /\ ts.result = "Ok"
    /\ last.op = "restore" /\ ~last.ok /\ last.tag = "Finish"
    /\ \E c \in Callers : view[c].extra \in {"Assign", "Approve", "Stage", "Run", "Finish"}

====
